---- MODULE Spec2Model ----
(***************************************************************************)
(* A model of the DFTTest filter of src/cpu_source/source.cpp.             *)
(*                                                                         *)
(* Spec       the worker threads of the host running DFTTestGetFrame on    *)
(*            one filter instance: the thread_data registry, its           *)
(*            shared_mutex, the num_uninitialized_threads counter, the     *)
(*            per-thread MXCSR control word, and DFTTestFree.              *)
(* SpecCreate DFTTestCreate on the arguments and clips a script may pass.  *)
(* SpecFrame  DFTTestCreate followed by one worker filtering one frame:    *)
(*            reflection padding, the block loop (load_block, fused,       *)
(*            store_block) and store_frame, on the contents of the         *)
(*            buffers.                                                     *)
(* SpecGrid   calc_pad_size and calc_pad_num on one axis of a plane, for   *)
(*            the sizes and block steps of the bounds.                     *)
(* SpecWindow the frames DFTTestGetFrame requests (arInitial) and fetches  *)
(*            (arAllFramesReady) for an output frame n.                    *)
(* SpecPlanes one worker's invocations of DFTTestGetFrame step by step     *)
(*            through the loop over the planes: memset, padding, the       *)
(*            block loop and store_frame as events.                        *)
(***************************************************************************)
EXTENDS Integers, Sequences, FiniteSets, TLC

\* ------------------------------------------------------------------------
\* Bounds of the model
\* ------------------------------------------------------------------------

\* info.numThreads of the core: the number of worker threads of the host.
NumThreads == 2

\* How many times in all the host calls DFTTestGetFrame.
MaxCalls == 4

\* The largest width and height of a plane of the frames filtered.
MaxDim == 2

\* The largest width or height of the planes of SpecGrid.
MaxSize == 40

\* The largest magnitude of the block_step arguments of SpecGrid.
MaxStep == 18

\* The largest number of frames of the clip (vi->numFrames) of SpecWindow.
MaxNumFrames == 8

\* How many frames the worker of SpecPlanes filters.
MaxPlaneFrames == 2

\* ------------------------------------------------------------------------
\* Variables
\* ------------------------------------------------------------------------

VARIABLES
    \* -- the worker threads (Spec) --
    pc,                         \* each worker's position in DFTTestGetFrame
    num_uninitialized_threads,  \* DFTTestData::num_uninitialized_threads
    thread_data,                \* DFTTestData::thread_data (thread id -> buffers)
    lock_writer,                \* thread_data_lock: the exclusive holder, or 0
    lock_readers,               \* thread_data_lock: the shared holders
    local_td,                   \* each worker's local DFTTestThreadData
    initialized,                \* each worker's local flag "initialized"
    mxcsr,                      \* each thread's MXCSR control word (its flags)
    saved_mxcsr,                \* each worker's local "mxcsr"
    heap,                       \* the blocks malloc has handed out and not freed
    filter,                     \* "alive", "freed" or "terminated"
    \* -- history of the run (not program state) --
    ncalls,                     \* invocations started per worker
    nframes,                    \* frames a worker has returned
    nalloc,                     \* invocations of a worker that called malloc
    nexcl,                      \* times a worker took the exclusive lock
    nfree,                      \* times each block was passed to std::free
    first_td,                   \* the buffers a worker registered first
    caller_mxcsr                \* each thread's control word before any call

    \* -- filter construction (SpecCreate) --
VARIABLES
    in_args,                    \* the VSMap "in" and the clip's VSVideoInfo
    d,                          \* the DFTTestData built by DFTTestCreate
    out_error,                  \* the error set on the VSMap "out" ("" if none)
    node_freed,                 \* calls of freeNode(d->node) by DFTTestCreate
    created,                    \* calls of createFilter
    cpc                         \* "start" before DFTTestCreate, "done" after

cvars == <<in_args, d, out_error, node_freed, created, cpc>>

    \* -- one frame through the filter (SpecFrame) --
VARIABLES
    src_plane,                  \* the source frame's plane: width, height, stride, data
    fused_kind,                 \* what fused() makes of a block (sigma, filter_type, ...)
    window_weight,              \* the value of every entry of "window"
    garbage,                    \* what memory nobody wrote reads as
    padded,                     \* contents of thread_data.padded
    padded2,                    \* contents of thread_data.padded2
    dst_plane,                  \* contents of the destination frame's plane
    fault,                      \* "none", or the fault that ended the invocation
    nblocks,                    \* blocks the block loop went through
    fpc                         \* "ready" before the frame, "returned" or "fault" after

fvars == <<src_plane, fused_kind, window_weight, garbage, padded, padded2,
           dst_plane, fault, nblocks, fpc>>

    \* -- the padded grid of one axis (SpecGrid) --
VARIABLES
    grid_size,                  \* the width or height of the plane
    grid_step,                  \* d->block_step
    grid_pad,                   \* calc_pad_size(size, block_size, block_step)
    grid_num,                   \* calc_pad_num(size, block_size, block_step)
    gpc                         \* "start", "sized", "counted" or "fault"

gvars == <<grid_size, grid_step, grid_pad, grid_num, gpc>>

    \* -- the temporal window of one output frame (SpecWindow) --
VARIABLES
    frame_n,                    \* n: the output frame
    num_frames,                 \* vi->numFrames
    requested,                  \* the frames passed to requestFrameFilter
    src_frames,                 \* the frames passed to getFrameFilter, in order
    wpc                         \* "start", "requested" or "ready"

wvars == <<frame_n, num_frames, requested, src_frames, wpc>>

    \* -- the loop over the planes (SpecPlanes) --
VARIABLES
    ppc,                        \* the worker's position in lines 399-486
    cur_plane,                  \* the loop variable "plane"
    plane_dims,                 \* width and height of the frame's planes
    plane_blocks,               \* the number of blocks of the current plane
    block_i,                    \* the blocks of the current plane done so far
    pframes,                    \* the frames the worker has started
    \* -- history of the invocation (not program state) --
    nzero,                      \* memsets of padded2, per plane
    nwrites,                    \* store_block calls, per plane
    nstored,                    \* store_frame calls, per plane
    open_plane,                 \* the plane between its first store_block and
                                \* its store_frame, or -1
    zero_while_open             \* a memset ran while a plane was open

pvars == <<ppc, cur_plane, plane_dims, plane_blocks, block_i, pframes, nzero,
           nwrites, nstored, open_plane, zero_while_open>>

tvars == <<pc, num_uninitialized_threads, thread_data, lock_writer, lock_readers,
           local_td, initialized, mxcsr, saved_mxcsr, heap, filter,
           ncalls, nframes, nalloc, nexcl, nfree, first_td, caller_mxcsr>>

vars == <<tvars, cvars, fvars, gvars, wvars, pvars>>

\* ------------------------------------------------------------------------
\* The worker threads
\* ------------------------------------------------------------------------

Workers == 1..NumThreads

\* The addresses malloc may return: two blocks per worker.
Addrs == 1..(2 * NumThreads)

\* The two lowest blocks that are not live.
LowestFree(live) ==
    LET a == CHOOSE x \in Addrs \ live : \A y \in Addrs \ live : x <= y
        b == CHOOSE x \in Addrs \ (live \cup {a}) :
                 \A y \in Addrs \ (live \cup {a}) : x <= y
    IN  {a, b}

\* The invocations the host has started so far.
RECURSIVE SumUpTo(_, _)
SumUpTo(f, n) == IF n = 0 THEN 0 ELSE f[n] + SumUpTo(f, n - 1)
TotalCalls == SumUpTo(ncalls, NumThreads)

NoBuffers == [padded |-> 0, padded2 |-> 0]

\* The flags of MXCSR the filter touches.
FlagFTZ == "FTZ"
FlagDAZ == "DAZ"

\* The control words the host's threads may run with when they call the
\* filter (a pool's threads start with the word of the thread that made them).
CallerModes == {{}, {FlagDAZ}}

\* no_subnormals() of vectorclass: sets flush-to-zero and denormals-are-zero.
no_subnormals(cw) == cw \cup {FlagFTZ, FlagDAZ}

\* set_control_word(mxcsr) at the end of DFTTestGetFrame: the word restored.
RestoredWord_NoRestore(saved, current) == current
RestoredWord(saved, current) == saved

\* const_data.at(thread_id) succeeds iff the thread has an entry.
Registered_Never(td, w) == FALSE
Registered(td, w) == w \in DOMAIN td

\* The test of line 337 on the value loaded from num_uninitialized_threads.
AllInitialized_OffByOne(n) == n <= 1
AllInitialized(n) == n = 0

\* unordered_map::emplace: inserts unless the key is present.
emplace_Nothing(td, w, v) == td
emplace(td, w, v) ==
    IF w \in DOMAIN td THEN td
    ELSE [x \in DOMAIN td \cup {w} |-> IF x = w THEN v ELSE td[x]]

\* The registry and the threads right after DFTTestCreate, with every
\* thread's control word cw.
ThreadsAtCreation(cw) ==
    /\ pc = [w \in Workers |-> "idle"]
    /\ num_uninitialized_threads = NumThreads
    /\ thread_data = <<>>
    /\ lock_writer = 0
    /\ lock_readers = {}
    /\ local_td = [w \in Workers |-> NoBuffers]
    /\ initialized = [w \in Workers |-> TRUE]
    /\ mxcsr = [w \in Workers |-> cw]
    /\ saved_mxcsr = [w \in Workers |-> {}]
    /\ heap = {}
    /\ filter = "alive"
    /\ ncalls = [w \in Workers |-> 0]
    /\ nframes = [w \in Workers |-> 0]
    /\ nalloc = [w \in Workers |-> 0]
    /\ nexcl = [w \in Workers |-> 0]
    /\ nfree = [a \in Addrs |-> 0]
    /\ first_td = [w \in Workers |-> NoBuffers]
    /\ caller_mxcsr = mxcsr

InitThreads == \E cw \in CallerModes : ThreadsAtCreation(cw)

\* Lines 317-327: arInitial requests the source frames and returns; any
\* other reason than arAllFramesReady returns at once.  Neither touches the
\* control word or the registry.
EarlyReturn(w) ==
    /\ filter = "alive"
    /\ pc[w] = "idle"
    /\ TotalCalls < MaxCalls
    /\ \E activationReason \in {"arInitial", "arError"} :
          ncalls' = [ncalls EXCEPT ![w] = @ + 1]
    /\ UNCHANGED <<pc, num_uninitialized_threads, thread_data, lock_writer,
                   lock_readers, local_td, initialized, mxcsr, saved_mxcsr,
                   heap, filter, nalloc, nexcl, nfree, first_td, nframes,
                   caller_mxcsr>>

\* Lines 329-334: arAllFramesReady; save the control word, force
\* no_subnormals, default-construct the local thread_data.
Enter(w) ==
    /\ filter = "alive"
    /\ pc[w] = "idle"
    /\ TotalCalls < MaxCalls
    /\ ncalls' = [ncalls EXCEPT ![w] = @ + 1]
    /\ saved_mxcsr' = [saved_mxcsr EXCEPT ![w] = mxcsr[w]]
    /\ mxcsr' = [mxcsr EXCEPT ![w] = no_subnormals(mxcsr[w])]
    /\ initialized' = [initialized EXCEPT ![w] = TRUE]
    /\ pc' = [pc EXCEPT ![w] = "load"]
    /\ UNCHANGED <<num_uninitialized_threads, thread_data, lock_writer,
                   lock_readers, local_td, heap, filter, nalloc, nexcl, nfree,
                   first_td, nframes,
                   caller_mxcsr>>

\* Line 337: the acquire load of the counter picks the path.
LoadCounter(w) ==
    /\ pc[w] = "load"
    /\ pc' = [pc EXCEPT ![w] =
                IF AllInitialized(num_uninitialized_threads)
                THEN "at_unlocked" ELSE "lock_shared"]
    /\ UNCHANGED <<num_uninitialized_threads, thread_data, lock_writer,
                   lock_readers, local_td, initialized, mxcsr, saved_mxcsr,
                   heap, filter, ncalls, nalloc, nexcl, nfree, first_td,
                   nframes,
                   caller_mxcsr>>

\* Lines 338-339: the lookup without any lock.  at() throws out_of_range for
\* a missing key; the function is noexcept, so the process terminates.
AtUnlocked(w) ==
    /\ pc[w] = "at_unlocked"
    /\ IF Registered(thread_data, w)
       THEN /\ local_td' = [local_td EXCEPT ![w] = thread_data[w]]
            /\ pc' = [pc EXCEPT ![w] = "process"]
            /\ UNCHANGED filter
       ELSE /\ filter' = "terminated"
            /\ pc' = [pc EXCEPT ![w] = "terminated"]
            /\ UNCHANGED local_td
    /\ UNCHANGED <<num_uninitialized_threads, thread_data, lock_writer,
                   lock_readers, initialized, mxcsr, saved_mxcsr, heap,
                   ncalls, nalloc, nexcl, nfree, first_td, nframes,
                   caller_mxcsr>>

\* Line 343: lock_shared() waits while a writer holds the lock.
LockShared(w) ==
    /\ pc[w] = "lock_shared"
    /\ lock_writer = 0
    /\ lock_readers' = lock_readers \cup {w}
    /\ pc' = [pc EXCEPT ![w] = "at_shared"]
    /\ UNCHANGED <<num_uninitialized_threads, thread_data, lock_writer,
                   local_td, initialized, mxcsr, saved_mxcsr, heap, filter,
                   ncalls, nalloc, nexcl, nfree, first_td, nframes,
                   caller_mxcsr>>

\* Lines 344-349: the lookup under the shared lock; out_of_range is caught.
AtShared(w) ==
    /\ pc[w] = "at_shared"
    /\ IF Registered(thread_data, w)
       THEN /\ local_td' = [local_td EXCEPT ![w] = thread_data[w]]
            /\ UNCHANGED initialized
       ELSE /\ initialized' = [initialized EXCEPT ![w] = FALSE]
            /\ UNCHANGED local_td
    /\ pc' = [pc EXCEPT ![w] = "unlock_shared"]
    /\ UNCHANGED <<num_uninitialized_threads, thread_data, lock_writer,
                   lock_readers, mxcsr, saved_mxcsr, heap, filter, ncalls,
                   nalloc, nexcl, nfree, first_td, nframes,
                   caller_mxcsr>>

\* Lines 350-352: unlock_shared(), then the branch on "initialized".
UnlockShared(w) ==
    /\ pc[w] = "unlock_shared"
    /\ lock_readers' = lock_readers \ {w}
    /\ pc' = [pc EXCEPT ![w] = IF initialized[w] THEN "process" ELSE "malloc"]
    /\ UNCHANGED <<num_uninitialized_threads, thread_data, lock_writer,
                   local_td, initialized, mxcsr, saved_mxcsr, heap, filter,
                   ncalls, nalloc, nexcl, nfree, first_td, nframes,
                   caller_mxcsr>>

\* Lines 353-365: the two std::malloc calls.  malloc returns blocks that are
\* not live (here the two lowest free ones, in either order).
Malloc(w) ==
    /\ pc[w] = "malloc"
    /\ Cardinality(Addrs \ heap) >= 2
    /\ \E a, b \in LowestFree(heap) :
          /\ a # b
          /\ local_td' = [local_td EXCEPT ![w] = [padded |-> a, padded2 |-> b]]
          /\ heap' = heap \cup {a, b}
    /\ nalloc' = [nalloc EXCEPT ![w] = @ + 1]
    /\ pc' = [pc EXCEPT ![w] = "lock"]
    /\ UNCHANGED <<num_uninitialized_threads, thread_data, lock_writer,
                   lock_readers, initialized, mxcsr, saved_mxcsr, filter,
                   ncalls, nexcl, nfree, first_td, nframes,
                   caller_mxcsr>>

\* Line 368: std::lock_guard takes the lock exclusively.
LockExclusive(w) ==
    /\ pc[w] = "lock"
    /\ lock_writer = 0
    /\ lock_readers = {}
    /\ lock_writer' = w
    /\ nexcl' = [nexcl EXCEPT ![w] = @ + 1]
    /\ pc' = [pc EXCEPT ![w] = "emplace"]
    /\ UNCHANGED <<num_uninitialized_threads, thread_data, lock_readers,
                   local_td, initialized, mxcsr, saved_mxcsr, heap, filter,
                   ncalls, nalloc, nfree, first_td, nframes,
                   caller_mxcsr>>

\* Line 369: the insertion.
Emplace(w) ==
    /\ pc[w] = "emplace"
    /\ thread_data' = emplace(thread_data, w, local_td[w])
    /\ first_td' = IF w \in DOMAIN thread_data THEN first_td
                   ELSE [first_td EXCEPT ![w] = local_td[w]]
    /\ pc' = [pc EXCEPT ![w] = "unlock"]
    /\ UNCHANGED <<num_uninitialized_threads, lock_writer, lock_readers,
                   local_td, initialized, mxcsr, saved_mxcsr, heap, filter,
                   ncalls, nalloc, nexcl, nfree, nframes,
                   caller_mxcsr>>

\* Line 370: the lock_guard's scope ends.
UnlockExclusive(w) ==
    /\ pc[w] = "unlock"
    /\ lock_writer' = 0
    /\ pc' = [pc EXCEPT ![w] = "fetch_sub"]
    /\ UNCHANGED <<num_uninitialized_threads, thread_data, lock_readers,
                   local_td, initialized, mxcsr, saved_mxcsr, heap, filter,
                   ncalls, nalloc, nexcl, nfree, first_td, nframes,
                   caller_mxcsr>>

\* Line 372: the release decrement of the counter.
FetchSub(w) ==
    /\ pc[w] = "fetch_sub"
    /\ num_uninitialized_threads' = num_uninitialized_threads - 1
    /\ pc' = [pc EXCEPT ![w] = "process"]
    /\ UNCHANGED <<thread_data, lock_writer, lock_readers, local_td,
                   initialized, mxcsr, saved_mxcsr, heap, filter, ncalls,
                   nalloc, nexcl, nfree, first_td, nframes,
                   caller_mxcsr>>

\* Lines 376-486: the frame is filtered in the worker's own buffers.
Process(w) ==
    /\ pc[w] = "process"
    /\ pc' = [pc EXCEPT ![w] = "restore"]
    /\ UNCHANGED <<num_uninitialized_threads, thread_data, lock_writer,
                   lock_readers, local_td, initialized, mxcsr, saved_mxcsr,
                   heap, filter, ncalls, nalloc, nexcl, nfree, first_td,
                   nframes,
                   caller_mxcsr>>

\* Lines 488-490: set_control_word(mxcsr) and the return of the frame.
Return(w) ==
    /\ pc[w] = "restore"
    /\ mxcsr' = [mxcsr EXCEPT ![w] = RestoredWord(saved_mxcsr[w], mxcsr[w])]
    /\ nframes' = [nframes EXCEPT ![w] = @ + 1]
    /\ pc' = [pc EXCEPT ![w] = "idle"]
    /\ UNCHANGED <<num_uninitialized_threads, thread_data, lock_writer,
                   lock_readers, local_td, initialized, saved_mxcsr, heap,
                   filter, ncalls, nalloc, nexcl, nfree, first_td,
                   caller_mxcsr>>

\* The blocks DFTTestFree passes to std::free: padded2 and padded of every
\* entry of the registry.
FreedBlocks(td) == {td[w].padded2 : w \in DOMAIN td} \cup {td[w].padded : w \in DOMAIN td}

\* How many times DFTTestFree frees block a.
FreeCount(td, a) ==
    Cardinality({w \in DOMAIN td : td[w].padded2 = a})
    + Cardinality({w \in DOMAIN td : td[w].padded = a})

\* Lines 493-507: the host frees the filter once no frame is in production.
DFTTestFree ==
    /\ filter = "alive"
    /\ \A w \in Workers : pc[w] = "idle"
    /\ filter' = "freed"
    /\ nfree' = [a \in Addrs |-> nfree[a] + FreeCount(thread_data, a)]
    /\ heap' = heap \ FreedBlocks(thread_data)
    /\ UNCHANGED <<pc, num_uninitialized_threads, thread_data, lock_writer,
                   lock_readers, local_td, initialized, mxcsr, saved_mxcsr,
                   ncalls, nalloc, nexcl, first_td, nframes,
                   caller_mxcsr>>

NextThreads ==
    \/ DFTTestFree
    \/ \E w \in Workers :
          \/ EarlyReturn(w)
          \/ Enter(w)
          \/ LoadCounter(w)
          \/ AtUnlocked(w)
          \/ LockShared(w)
          \/ AtShared(w)
          \/ UnlockShared(w)
          \/ Malloc(w)
          \/ LockExclusive(w)
          \/ Emplace(w)
          \/ UnlockExclusive(w)
          \/ FetchSub(w)
          \/ Process(w)
          \/ Return(w)


\* ------------------------------------------------------------------------
\* DFTTestCreate
\* ------------------------------------------------------------------------

\* The bounds of int (int64ToIntS of VSHelper.h saturates to them).
IntMax == 2147483647
IntMin == -IntMax - 1

\* An int64_t property value, as hi * 2^32 + lo with lo a signed 32-bit word.
I64(n) == [hi |-> 0, lo |-> n]
TwoTo32Plus(n) == [hi |-> 1, lo |-> n]

\* The property is not in the map: propGetInt sets *error and returns 0.
Unset == [hi |-> 0, lo |-> 0, unset |-> TRUE]
IsUnset(x) == "unset" \in DOMAIN x

\* int64ToIntS: the value, saturated to the range of int.
int64ToIntS(x) ==
    IF x.hi > 0 THEN IntMax ELSE IF x.hi < 0 THEN IntMin ELSE x.lo

\* static_cast<int>(int64_t) of line 563: the low 32 bits.
static_cast_int(x) == x.lo

\* The true value of an int64 property is below, at or above an int bound b.
I64Less(x, b) == x.hi < 0 \/ (x.hi = 0 /\ x.lo < b)
I64AtLeast(x, b) == x.hi > 0 \/ (x.hi = 0 /\ x.lo >= b)

\* The clips a script may pass: VSVideoInfo::format, or no constant format.
NoFormat == [constant |-> FALSE]
Format(st, bits, np) ==
    [constant |-> TRUE, sampleType |-> st, bitsPerSample |-> bits,
     bytesPerSample |-> (bits + 7) \div 8, numPlanes |-> np]

Formats ==
    {NoFormat} \cup
    {Format("stInteger", b, np) : b \in {8, 10, 16, 32}, np \in {1, 3}} \cup
    {Format("stFloat", b, np) : b \in {16, 32}, np \in {1, 3}}

RadiusArgs == {Unset, I64(-1), I64(0), I64(3), I64(4), TwoTo32Plus(0)}
BlockSizeArgs == {Unset, I64(16), I64(8), I64(32), TwoTo32Plus(16)}
BlockStepArgs == {Unset, I64(-1), I64(0), I64(8), I64(16), I64(17)}
PlanesArgs ==
    { <<>>, <<I64(0)>>, <<I64(1)>>, <<I64(3)>>, <<I64(-1)>>,
      <<I64(0), I64(0)>>, <<I64(0), I64(2), I64(1)>>, <<I64(2), I64(1), I64(2)>>,
      <<TwoTo32Plus(0)>>, <<I64(0), TwoTo32Plus(1)>> }

Args(f, r, bsize, bstep, pl) ==
    [format |-> f, radius |-> r, block_size |-> bsize, block_step |-> bstep,
     planes |-> pl]

\* Lines 560-574: the loop over "planes".  The result is the process array,
\* or the error the loop returns with.
RECURSIVE PlanesLoop(_, _, _, _)
PlanesLoop(planes, i, numPlanes, process) ==
    IF i > Len(planes) THEN [error |-> "", process |-> process]
    ELSE LET plane == static_cast_int(planes[i])
         IN  IF plane < 0 \/ plane >= numPlanes
             THEN [error |-> "plane index out of range", process |-> process]
             ELSE IF process[plane]
             THEN [error |-> "plane specified twice", process |-> process]
             ELSE PlanesLoop(planes, i + 1, numPlanes,
                             [process EXCEPT ![plane] = TRUE])

\* Lines 524-574: the checks of DFTTestCreate in their order.  The result is
\* the error message ("" when the configuration is accepted) and the fields
\* of DFTTestData set so far.
CreateOutcome(a) ==
    LET radius == IF IsUnset(a.radius) THEN 0 ELSE int64ToIntS(a.radius)
        block_size == IF IsUnset(a.block_size) THEN 16
                      ELSE int64ToIntS(a.block_size)
        block_step == IF IsUnset(a.block_step) THEN block_size
                      ELSE int64ToIntS(a.block_step)
        fill == Len(a.planes) <= 0
        loop == PlanesLoop(a.planes, 1, a.format.numPlanes,
                           [p \in 0..2 |-> fill])
        fields == [radius |-> radius, block_size |-> block_size,
                   block_step |-> block_step, process |-> loop.process,
                   format |-> a.format]
    IN  IF ~a.format.constant
        THEN [error |-> "only constant format input is supported"]
        ELSE IF a.format.sampleType = "stInteger" /\ a.format.bytesPerSample > 2
        THEN [error |-> "only 8-16 bit integer format input is supported"]
        ELSE IF a.format.sampleType = "stFloat" /\ a.format.bitsPerSample # 32
        THEN [error |-> "only 32-bit float format input is supported"]
        ELSE IF radius < 0 \/ radius > 3
        THEN [error |-> "radius must be in [0, 1, 2, 3]"]
        ELSE IF block_size # 16
        THEN [error |-> "block_size must be 16"]
        ELSE IF loop.error # ""
        THEN [error |-> loop.error]
        ELSE [error |-> "", data |-> fields]

NoData == [none |-> TRUE]

\* The arguments of a script that passes an 8-bit clip and nothing else.
DefaultArgs == Args(Format("stInteger", 8, 1), Unset, Unset, Unset, <<>>)

\* Before DFTTestCreate is called with the arguments a.
BeforeCreate(a) ==
    /\ in_args = a
    /\ d = NoData
    /\ out_error = ""
    /\ node_freed = 0
    /\ created = 0
    /\ cpc = "start"

\* Lines 509-630: DFTTestCreate.  set_error frees the node and sets the error
\* on "out"; otherwise createFilter takes the data over.
DFTTestCreate ==
    /\ cpc = "start"
    /\ LET r == CreateOutcome(in_args)
       IN  IF r.error # ""
           THEN /\ out_error' = r.error
                /\ node_freed' = node_freed + 1
                /\ UNCHANGED <<d, created>>
           ELSE /\ d' = r.data
                /\ created' = created + 1
                /\ UNCHANGED <<out_error, node_freed>>
    /\ cpc' = "done"
    /\ UNCHANGED in_args

\* No axis is being measured.
NoGrid ==
    /\ grid_size = 0
    /\ grid_step = 0
    /\ grid_pad = 0
    /\ grid_num = 0
    /\ gpc = "none"

\* No output frame is asked for.
NoWindow ==
    /\ frame_n = 0
    /\ num_frames = 0
    /\ requested = {}
    /\ src_frames = <<>>
    /\ wpc = "none"

\* No worker is in the loop over the planes.
NoPlanes ==
    /\ ppc = "none"
    /\ cur_plane = 0
    /\ plane_dims = [width |-> 0, height |-> 0]
    /\ plane_blocks = 0
    /\ block_i = 0
    /\ pframes = 0
    /\ nzero = [p \in 0..2 |-> 0]
    /\ nwrites = [p \in 0..2 |-> 0]
    /\ nstored = [p \in 0..2 |-> 0]
    /\ open_plane = -1
    /\ zero_while_open = FALSE

\* No frame is in the filter.
NoFrame ==
    /\ src_plane = [width |-> 0, height |-> 0, stride |-> 0, data |-> <<>>]
    /\ fused_kind = [identity |-> TRUE, out |-> 0]
    /\ window_weight = 1
    /\ garbage = 0
    /\ padded = <<>>
    /\ padded2 = <<>>
    /\ dst_plane = <<>>
    /\ fault = "none"
    /\ nblocks = 0
    /\ fpc = "none"

InitCreate ==
    /\ ThreadsAtCreation({})
    /\ NoFrame
    /\ NoGrid
    /\ NoWindow
    /\ NoPlanes
    /\ \E f \in Formats, r \in RadiusArgs, bsize \in BlockSizeArgs,
          bstep \in BlockStepArgs, pl \in PlanesArgs :
          BeforeCreate(Args(f, r, bsize, bstep, pl))

NextCreate == DFTTestCreate /\ UNCHANGED <<tvars, fvars, gvars, wvars, pvars>>

SpecCreate == InitCreate /\ [][NextCreate]_vars

\* ------------------------------------------------------------------------
\* The padded grid: calc_pad_size, calc_pad_num
\* ------------------------------------------------------------------------

Max(a, b) == IF a >= b THEN a ELSE b
Min(a, b) == IF a <= b THEN a ELSE b
Abs(a) == IF a < 0 THEN -a ELSE a

\* The / and % of C++ on int: the quotient is truncated towards zero and
\* the remainder has the sign of the dividend (b # 0).
CDiv(a, b) ==
    IF (a >= 0) = (b > 0) THEN Abs(a) \div Abs(b) ELSE -(Abs(a) \div Abs(b))
CMod(a, b) == a - b * CDiv(a, b)

\* Lines 59-65.
calc_pad_size_NoRounding(size, block_size, block_step) ==
    size + Max(block_size - block_step, block_step) * 2
calc_pad_size(size, block_size, block_step) ==
    size
    + (IF CMod(size, block_size) # 0
       THEN block_size - CMod(size, block_size) ELSE 0)
    + Max(block_size - block_step, block_step) * 2

\* Lines 67-69, for block_step # 0.
calc_pad_num_BySize(size, block_size, block_step) ==
    CDiv(calc_pad_size(size, block_size, block_step) - block_size, block_size) + 1
calc_pad_num(size, block_size, block_step) ==
    CDiv(calc_pad_size(size, block_size, block_step) - block_size, block_step) + 1

\* ------------------------------------------------------------------------
\* float values
\* ------------------------------------------------------------------------

\* A float is modelled exactly, as an integer: the number q / 256 as q
\* (every value the filter computes from 8- to 16-bit samples and integer
\* window weights is such a number, with fewer than 24 significant bits and
\* |q| < 2^30), and beyond these a NaN and the values (finite or infinite)
\* too large in magnitude for an int, with their sign.
FloatPosOver == 1073741824
FloatNegOver == -FloatPosOver
FloatNaN == FloatPosOver + 1

IsNum(x) == FloatNegOver < x /\ x < FloatPosOver

\* float * float, the second an integer weight n >= 1.
FMulInt(x, n) == IF IsNum(x) THEN x * n ELSE x

\* float + float.
FAdd(a, b) ==
    IF a = FloatNaN \/ b = FloatNaN THEN FloatNaN
    ELSE IF IsNum(a) /\ IsNum(b) THEN a + b
    ELSE IF IsNum(a) THEN b
    ELSE IF IsNum(b) THEN a
    ELSE IF a = b THEN a ELSE FloatNaN

\* mul_add(a, b, c) of vectorclass: a * b + c.
mul_add(a, n, c) == FAdd(FMulInt(a, n), c)

\* 1 << n.
RECURSIVE Shl1(_)
Shl1(n) == IF n = 0 THEN 1 ELSE 2 * Shl1(n - 1)

\* ------------------------------------------------------------------------
\* reflection_padding_impl
\* ------------------------------------------------------------------------

\* A buffer of rows * pad_width floats is modelled line by line: buf[y][x] is
\* the float at address y * pad_width + x.

\* The buffer whose floats all hold v.
Filled(rows, pad_width, v) ==
    [y \in 0..(rows - 1) |-> [x \in 0..(pad_width - 1) |-> v]]

\* A read of the float at address k: memory outside the buffer reads as g.
ReadAt(buf, rows, pad_width, k, g) ==
    IF k >= 0 /\ k < rows * pad_width
    THEN buf[k \div pad_width][k % pad_width]
    ELSE g

\* A read of the pad_width floats from address y * pad_width on.
ReadLine(buf, rows, pad_width, y, g) ==
    IF y >= 0 /\ y < rows THEN buf[y] ELSE [x \in 0..(pad_width - 1) |-> g]

\* Lines 85-89: vs_bitblt of the source plane into the centre of the slice
\* that starts at line top.
BitBlt(dst, top, src, width, height, stride, offset_x, offset_y) ==
    [y \in DOMAIN dst |->
        IF y >= top + offset_y /\ y < top + offset_y + height
        THEN LET line == dst[y]
             IN  [x \in DOMAIN line |->
                    IF x >= offset_x /\ x < offset_x + width
                    THEN src[(y - top - offset_y) * stride + (x - offset_x)]
                    ELSE line[x]]
        ELSE dst[y]]

\* Lines 95-97 for the line y: dst_line[x] = dst_line[offset_x * 2 - x].
\* The cells read lie right of offset_x: the loop writes none of them.
MirrorLeft(dst, rows, y, pad_width, offset_x, g) ==
    [r \in DOMAIN dst |->
        IF r = y
        THEN LET line == dst[y]
             IN  [x \in DOMAIN line |->
                    IF x < offset_x
                    THEN ReadAt(dst, rows, pad_width,
                                y * pad_width + offset_x * 2 - x, g)
                    ELSE line[x]]
        ELSE dst[r]]

\* Lines 99-101 for the line y:
\* dst_line[x] = dst_line[2 * (offset_x + width) - 2 - x].  The cells read lie
\* left of offset_x + width: the loop writes none of them.
MirrorRight(dst, rows, y, pad_width, offset_x, width, g) ==
    [r \in DOMAIN dst |->
        IF r = y
        THEN LET line == dst[y]
             IN  [x \in DOMAIN line |->
                    IF x >= offset_x + width
                    THEN ReadAt(dst, rows, pad_width,
                                y * pad_width + 2 * (offset_x + width) - 2 - x, g)
                    ELSE line[x]]
        ELSE dst[r]]

\* Lines 92-102: the lines of the source, top to bottom.
RECURSIVE MirrorLines(_, _, _, _, _, _, _, _)
MirrorLines(dst, rows, y, last, pad_width, offset_x, width, g) ==
    IF y > last THEN dst
    ELSE MirrorLines(
            MirrorRight(MirrorLeft(dst, rows, y, pad_width, offset_x, g),
                        rows, y, pad_width, offset_x, width, g),
            rows, y + 1, last, pad_width, offset_x, width, g)

\* Lines 105-111: line y < offset_y is a copy of line offset_y * 2 - y, a
\* line below offset_y that the loop does not write.
MirrorTop(dst, rows, top, pad_width, offset_y, g) ==
    [y \in DOMAIN dst |->
        IF y >= top /\ y < top + offset_y
        THEN ReadLine(dst, rows, pad_width, top + offset_y * 2 - (y - top), g)
        ELSE dst[y]]

\* Lines 114-120: line y >= offset_y + height is a copy of line
\* 2 * (offset_y + height) - 2 - y, a line above offset_y + height that the
\* loop does not write.
MirrorBottom(dst, rows, top, pad_width, pad_height, offset_y, height, g) ==
    [y \in DOMAIN dst |->
        IF y >= top + offset_y + height /\ y < top + pad_height
        THEN ReadLine(dst, rows, pad_width,
                      top + 2 * (offset_y + height) - 2 - (y - top), g)
        ELSE dst[y]]

\* Lines 71-121: the slice of dst (a buffer of rows lines) that starts at
\* address base, padded from src.
reflection_padding_impl(dst, rows, base, src, width, height, stride, block_size, block_step, g) ==
    LET pad_width == calc_pad_size(width, block_size, block_step)
        pad_height == calc_pad_size(height, block_size, block_step)
        offset_y == (pad_height - height) \div 2
        offset_x == (pad_width - width) \div 2
        top == base \div pad_width
        blt == BitBlt(dst, top, src, width, height, stride, offset_x, offset_y)
        sides == MirrorLines(blt, rows, top + offset_y,
                             top + offset_y + height - 1,
                             pad_width, offset_x, width, g)
        upper == MirrorTop(sides, rows, top, pad_width, offset_y, g)
    IN  MirrorBottom(upper, rows, top, pad_width, pad_height, offset_y, height, g)

\* The lowest address (relative to the start of the buffer) that
\* reflection_padding_impl reads from dst for the slice at base: the source
\* of the last column of the first source line, or of the last line.
LowestPaddingRead(base, width, height, block_size, block_step) ==
    LET pad_width == calc_pad_size(width, block_size, block_step)
        pad_height == calc_pad_size(height, block_size, block_step)
        offset_y == (pad_height - height) \div 2
        offset_x == (pad_width - width) \div 2
    IN  Min(base + offset_y * pad_width
                 + 2 * (offset_x + width) - 2 - (pad_width - 1),
            base + (2 * (offset_y + height) - 2 - (pad_height - 1)) * pad_width)

\* ------------------------------------------------------------------------
\* load_block, fused, store_block, store_frame
\* ------------------------------------------------------------------------

\* Lines 167-170: "scale" of load_block for integer samples, times 256.
load_scale(bits_per_sample) == 256 \div Shl1(bits_per_sample - 8)

\* Lines 238-241: "scale" of store_frame for integer samples, times 256.
store_scale_Unscaled(bits_per_sample) == 256
store_scale(bits_per_sample) == 256 \div Shl1(bits_per_sample - 8)

\* Lines 183-185 and 192-194: scale * window * to_float(sample).
LoadSample(v, bits_per_sample, weight) ==
    load_scale(bits_per_sample) * weight * v

\* fused() of kernel.hpp on one value of the block: the identity, or a
\* filter whose output is the same value everywhere.
IdentityFilter == [identity |-> TRUE, out |-> 0]
ConstantFilter(x) == [identity |-> FALSE, out |-> x]
FusedKinds ==
    {IdentityFilter} \cup
    { ConstantFilter(x) : x \in {-3 * 256, 1100 * 256, FloatNaN, FloatNegOver} }
fused(x, kind) == IF kind.identity THEN x ELSE kind.out

\* Lines 439-467 for the block whose first float is at line y0, column x0
\* of a plane in which it lies: load_block from the centre slice, which
\* starts at address src_base of pad, fused, store_block into the
\* accumulation buffer.
ProcessBlock(acc, pad, rows, src_base, y0, x0, pad_width, block_size, bits, weight, kind, g) ==
    [y \in DOMAIN acc |->
        IF y >= y0 /\ y < y0 + block_size
        THEN LET line == acc[y]
             IN  [x \in DOMAIN line |->
                    IF x >= x0 /\ x < x0 + block_size
                    THEN mul_add(
                            fused(LoadSample(
                                      ReadAt(pad, rows, pad_width,
                                             src_base + y * pad_width + x, g),
                                      bits, weight),
                                  kind),
                            weight, line[x])
                    ELSE line[x]]
        ELSE acc[y]]

\* Lines 430-469: the block loop, block b = i * num_w + j at address
\* (i * pad_width + j) * block_step.
RECURSIVE BlockLoop(_, _, _, _, _, _, _, _, _, _, _, _, _, _)
BlockLoop(acc, pad, rows, src_base, b, num_h, num_w, pad_width, block_size, block_step, bits, weight, kind, g) ==
    IF num_h <= 0 \/ num_w <= 0 \/ b >= num_h * num_w THEN acc
    ELSE BlockLoop(
            ProcessBlock(acc, pad, rows, src_base,
                         (b \div num_w) * block_step, (b % num_w) * block_step,
                         pad_width, block_size, bits, weight, kind, g),
            pad, rows, src_base, b + 1, num_h, num_w, pad_width, block_size,
            block_step, bits, weight, kind, g)

\* Every block of the loop lies inside the padded plane.
BlocksInside(num_h, num_w, pad_width, pad_height, block_size, block_step) ==
    \A i \in 0..(num_h - 1), j \in 0..(num_w - 1) :
        /\ i * block_step >= 0 /\ i * block_step + block_size <= pad_height
        /\ j * block_step >= 0 /\ j * block_step + block_size <= pad_width

\* std::clamp(v, lo, hi).
clamp_NoLowerBound(v, lo, hi) == IF hi < v THEN hi ELSE v
clamp(v, lo, hi) == IF v < lo THEN lo ELSE IF hi < v THEN hi ELSE v

\* Lines 250 and 259:
\* std::clamp(static_cast<int>(x / scale + 0.5f), 0, peak).  The conversion of
\* a NaN or of a value outside the range of int is undefined: it yields ub.
Quantize(x, bits_per_sample, ub) ==
    LET peak == Shl1(bits_per_sample) - 1
        asint == IF IsNum(x)
                 THEN CDiv(x * (256 \div store_scale(bits_per_sample)) + 128, 256)
                 ELSE ub
    IN  clamp(asint, 0, peak)

\* Lines 228-263: store_frame on integer samples; shifted_src is acc + off,
\* acc a plane of rows lines.
store_frame(dst, acc, rows, off, width, height, dst_stride, src_stride, bits_per_sample, ub) ==
    [k \in DOMAIN dst |->
        LET y == k \div dst_stride
            x == k % dst_stride
        IN  IF y < height /\ x < width
            THEN Quantize(ReadAt(acc, rows, src_stride,
                                 off + y * src_stride + x, 0),
                          bits_per_sample, ub)
                     % Shl1(8 * ((bits_per_sample + 7) \div 8))
            ELSE dst[k]]

\* ------------------------------------------------------------------------
\* One frame through the filter
\* ------------------------------------------------------------------------

\* The planes filtered: width and height up to MaxDim, a stride one sample
\* longer than the width, and samples that differ from pixel to pixel: the
\* pixels of even index count up from 0, those of odd index down from the
\* peak of the format.  The samples between width and stride are never
\* read; they hold g.
Plane(width, height, bits, g) ==
    LET stride == width + 1
    IN  [width |-> width, height |-> height, stride |-> stride,
         data |-> [k \in 0..(height * stride - 1) |->
                     LET n == (k \div stride) * width + (k % stride)
                     IN  IF k % stride >= width THEN g
                         ELSE IF n % 2 = 0 THEN n
                         ELSE Shl1(bits) - 1 - n]]

\* What memory that was never written may read as (as a sample).
GarbageSamples == {3, 77}

\* The values of the entries of "window" (every entry has the same value).
WindowWeights == {1, 2}

\* What the conversion of a NaN or of an out-of-range float to int may
\* yield (cvttss2si yields IntMin).
CastOutcomes == {IntMin, -1, 0, 1000, IntMax}

\* What the division by a block_step of 0 may do: trap, or yield a quotient.
DivZeroOutcomes == {[trap |-> TRUE, quotient |-> 0], [trap |-> FALSE, quotient |-> 0]}

\* The block_step arguments of the frames filtered.
FrameStepArgs == {Unset, I64(-1), I64(0), I64(8), I64(12), I64(17)}

\* The sample formats of the frames filtered.
FrameBits == {8, 10, 16}

\* Lines 419-428: reflection_padding of the source frames i..2 * radius into
\* the slices of padded (the clip repeats one frame: every source is src).
RECURSIVE PadSlices(_, _, _, _, _, _, _, _, _)
PadSlices(pad, rows, i, radius, spatial, src, block_size, block_step, g) ==
    IF i > 2 * radius THEN pad
    ELSE PadSlices(
            reflection_padding_impl(pad, rows, i * spatial, src.data, src.width,
                                    src.height, src.stride, block_size,
                                    block_step, g),
            rows, i + 1, radius, spatial, src, block_size, block_step, g)

\* The state of the frame before the worker's first DFTTestGetFrame.
BeforeFrame(plane, kind, weight, g) ==
    /\ src_plane = plane
    /\ fused_kind = kind
    /\ window_weight = weight
    /\ garbage = g
    /\ padded = <<>>
    /\ padded2 = <<>>
    /\ dst_plane = <<>>
    /\ fault = "none"
    /\ nblocks = 0
    /\ fpc = "ready"

\* The worker of SpecFrame.
TheWorker == 1

\* Lines 329-374 and 488 for a worker on its own: the control word is saved
\* and forced; the first call allocates, registers and decrements the
\* counter; the word is restored unless the invocation ended in a fault.
FrameBookkeeping(faulted) ==
    /\ ncalls' = [ncalls EXCEPT ![TheWorker] = @ + 1]
    /\ IF Registered(thread_data, TheWorker)
       THEN UNCHANGED <<thread_data, first_td, heap, nalloc, nexcl, local_td,
                        num_uninitialized_threads>>
       ELSE \E a, b \in LowestFree(heap) :
               /\ a < b
               /\ local_td' = [local_td EXCEPT ![TheWorker] =
                                  [padded |-> a, padded2 |-> b]]
               /\ thread_data' = emplace(thread_data, TheWorker,
                                         [padded |-> a, padded2 |-> b])
               /\ first_td' = [first_td EXCEPT ![TheWorker] =
                                  [padded |-> a, padded2 |-> b]]
               /\ heap' = heap \cup {a, b}
               /\ nalloc' = [nalloc EXCEPT ![TheWorker] = @ + 1]
               /\ nexcl' = [nexcl EXCEPT ![TheWorker] = @ + 1]
               /\ num_uninitialized_threads' = num_uninitialized_threads - 1
    /\ saved_mxcsr' = [saved_mxcsr EXCEPT ![TheWorker] = mxcsr[TheWorker]]
    /\ IF faulted
       THEN /\ mxcsr' = [mxcsr EXCEPT ![TheWorker] = no_subnormals(@)]
            /\ filter' = "terminated"
            /\ pc' = [pc EXCEPT ![TheWorker] = "terminated"]
            /\ UNCHANGED nframes
       ELSE /\ mxcsr' = [mxcsr EXCEPT ![TheWorker] =
                           RestoredWord(@, no_subnormals(@))]
            /\ nframes' = [nframes EXCEPT ![TheWorker] = @ + 1]
            /\ UNCHANGED <<filter, pc>>
    /\ UNCHANGED <<lock_writer, lock_readers, initialized, nfree, caller_mxcsr>>

\* Lines 310-491 with activationReason = arAllFramesReady, for the one plane
\* of a frame whose plane is processed.
GetFrame ==
    /\ cpc = "done"
    /\ created = 1
    /\ fpc = "ready"
    /\ LET width == src_plane.width
           height == src_plane.height
           stride == src_plane.stride
           bits == d.format.bitsPerSample
           pad_width == calc_pad_size(width, d.block_size, d.block_step)
           pad_height == calc_pad_size(height, d.block_size, d.block_step)
           spatial == pad_height * pad_width
           rows == (2 * d.radius + 1) * pad_height
           \* lines 360-365: the buffers as malloc returns them
           fresh == Filled(rows, pad_width, garbage)
           \* lines 413-417: memset
           zeroed == Filled(pad_height, pad_width, 0)
           \* line 395: the new frame's plane
           newframe == [k \in 0..(height * stride - 1) |-> garbage]
           \* lines 419-428
           pad == PadSlices(fresh, rows, 0, d.radius, spatial, src_plane,
                            d.block_size, d.block_step, garbage)
           wild == LowestPaddingRead(0, width, height, d.block_size,
                                     d.block_step) < 0
           offset_y == (pad_height - height) \div 2
           offset_x == (pad_width - width) \div 2
       IN  \E segv \in (IF wild THEN BOOLEAN ELSE {FALSE}),
              dz \in (IF d.block_step = 0 THEN DivZeroOutcomes
                      ELSE {[trap |-> FALSE, quotient |-> 0]}) :
              LET num_h == IF d.block_step = 0 THEN dz.quotient + 1
                           ELSE calc_pad_num(height, d.block_size, d.block_step)
                  num_w == IF d.block_step = 0 THEN dz.quotient + 1
                           ELSE calc_pad_num(width, d.block_size, d.block_step)
              IN
              IF segv
              THEN \* the read before the start of the buffer faults
                   /\ fault' = "SIGSEGV"
                   /\ fpc' = "fault"
                   /\ padded' = fresh
                   /\ padded2' = zeroed
                   /\ dst_plane' = newframe
                   /\ UNCHANGED nblocks
                   /\ FrameBookkeeping(TRUE)
              ELSE IF dz.trap
              THEN \* line 430: the division traps
                   /\ fault' = "SIGFPE"
                   /\ fpc' = "fault"
                   /\ padded' = pad
                   /\ padded2' = zeroed
                   /\ dst_plane' = newframe
                   /\ UNCHANGED nblocks
                   /\ FrameBookkeeping(TRUE)
              ELSE IF ~BlocksInside(num_h, num_w, pad_width, pad_height,
                                    d.block_size, d.block_step)
              THEN \* a block read or written beyond the buffers
                   /\ fault' = "SIGSEGV"
                   /\ fpc' = "fault"
                   /\ padded' = pad
                   /\ padded2' = zeroed
                   /\ dst_plane' = newframe
                   /\ UNCHANGED nblocks
                   /\ FrameBookkeeping(TRUE)
              ELSE LET acc == BlockLoop(zeroed, pad, rows, d.radius * spatial,
                                        0, num_h, num_w, pad_width,
                                        d.block_size, d.block_step, bits,
                                        window_weight, fused_kind, garbage)
                   IN  /\ fault' = "none"
                       /\ fpc' = "returned"
                       /\ padded' = pad
                       /\ padded2' = acc
                       /\ nblocks' = Max(num_h, 0) * Max(num_w, 0)
                       /\ \E ub \in (IF ~fused_kind.identity
                                        /\ ~IsNum(fused_kind.out)
                                     THEN CastOutcomes ELSE {0}) :
                             dst_plane' = store_frame(newframe, acc, pad_height,
                                             offset_y * pad_width + offset_x,
                                             width, height, stride, pad_width,
                                             bits, ub)
                       /\ FrameBookkeeping(FALSE)
    /\ UNCHANGED <<src_plane, fused_kind, window_weight, garbage>>

InitFrame ==
    /\ ThreadsAtCreation({})
    /\ NoGrid
    /\ NoWindow
    /\ NoPlanes
    /\ \E bits \in FrameBits, bstep \in FrameStepArgs :
          BeforeCreate(Args(Format("stInteger", bits, 1), Unset, Unset, bstep, <<>>))
    /\ \E width \in 1..MaxDim, height \in 1..MaxDim, kind \in FusedKinds,
          weight \in WindowWeights, g \in GarbageSamples :
          BeforeFrame(Plane(width, height, in_args.format.bitsPerSample, g),
                      kind, weight, g)

NextFrame ==
    \/ DFTTestCreate /\ UNCHANGED <<tvars, fvars, gvars, wvars, pvars>>
    \/ GetFrame /\ UNCHANGED <<cvars, gvars, wvars, pvars>>

SpecFrame == InitFrame /\ [][NextFrame]_vars

\* ------------------------------------------------------------------------
\* The padded grid of one axis
\* ------------------------------------------------------------------------

\* block_size: line 552 rejects every other value.
BlockSize == 16

\* The block_step arguments of SpecGrid (DFTTestCreate accepts every int).
GridSteps == (-MaxStep)..MaxStep

\* The first float of block j on its axis: j * block_step (line 441).
BlockStart(j, block_size, block_step) == j * block_step

\* The pixel p of the axis lies in one of the blocks 0..num-1.
Covered(p, num, block_size, block_step) ==
    \E j \in 0..(num - 1) :
        /\ BlockStart(j, block_size, block_step) <= p
        /\ p < BlockStart(j, block_size, block_step) + block_size

\* Lines 403-404: pad_width, pad_height.
CalcPadSize ==
    /\ gpc = "start"
    /\ grid_pad' = calc_pad_size(grid_size, BlockSize, grid_step)
    /\ gpc' = "sized"
    /\ UNCHANGED <<grid_size, grid_step, grid_num>>

\* Line 430 (and 431): calc_pad_num.  The division by a block_step of 0 is
\* undefined.
CalcPadNum ==
    /\ gpc = "sized"
    /\ IF grid_step = 0
       THEN \E dz \in DivZeroOutcomes :
               IF dz.trap
               THEN gpc' = "fault" /\ UNCHANGED grid_num
               ELSE gpc' = "counted" /\ grid_num' = dz.quotient + 1
       ELSE /\ grid_num' = calc_pad_num(grid_size, BlockSize, grid_step)
            /\ gpc' = "counted"
    /\ UNCHANGED <<grid_size, grid_step, grid_pad>>

InitGrid ==
    /\ ThreadsAtCreation({})
    /\ in_args = DefaultArgs
    /\ d = NoData
    /\ out_error = ""
    /\ node_freed = 0
    /\ created = 0
    /\ cpc = "start"
    /\ NoFrame
    /\ NoWindow
    /\ NoPlanes
    /\ grid_size \in 1..MaxSize
    /\ grid_step \in GridSteps
    /\ grid_pad = 0
    /\ grid_num = 0
    /\ gpc = "start"

NextGrid ==
    \/ CalcPadSize /\ UNCHANGED <<tvars, cvars, fvars, wvars, pvars>>
    \/ CalcPadNum /\ UNCHANGED <<tvars, cvars, fvars, wvars, pvars>>

SpecGrid == InitGrid /\ [][NextGrid]_vars

\* ------------------------------------------------------------------------
\* The temporal window of an output frame
\* ------------------------------------------------------------------------

\* Lines 318-323: the frames arInitial requests for the output frame n.
WindowRequested(n, radius, numFrames) ==
    Max(n - radius, 0)..Min(n + radius, numFrames - 1)

\* Lines 378-381: the frame fetched for i = n - radius + k.
WindowEntry_Unclamped(n, radius, k, numFrames) == n - radius + k
WindowEntry(n, radius, k, numFrames) ==
    clamp(n - radius + k, 0, numFrames - 1)

\* The radius arguments of SpecWindow: unset, every valid radius and the
\* nearest invalid ones.
WindowRadiusArgs == {Unset} \cup {I64(r) : r \in (-1)..4}

\* Lines 317-324: activationReason = arInitial.
Initial ==
    /\ cpc = "done"
    /\ created = 1
    /\ wpc = "start"
    /\ requested' = WindowRequested(frame_n, d.radius, num_frames)
    /\ wpc' = "requested"
    /\ UNCHANGED <<frame_n, num_frames, src_frames>>

\* Lines 376-383: activationReason = arAllFramesReady, once the frames
\* requested are there: src_frames is filled for i = n - radius .. n + radius.
AllFramesReady ==
    /\ wpc = "requested"
    /\ src_frames' = [k \in 1..(2 * d.radius + 1) |->
                         WindowEntry(frame_n, d.radius, k - 1, num_frames)]
    /\ wpc' = "ready"
    /\ UNCHANGED <<frame_n, num_frames, requested>>

\* The host asks for the output frames 0 .. numFrames - 1 of a clip of at
\* least one frame.
InitWindow ==
    /\ ThreadsAtCreation({})
    /\ NoFrame
    /\ NoGrid
    /\ NoPlanes
    /\ \E r \in WindowRadiusArgs :
          BeforeCreate(Args(Format("stInteger", 8, 1), r, Unset, Unset, <<>>))
    /\ num_frames \in 1..MaxNumFrames
    /\ frame_n \in 0..(num_frames - 1)
    /\ requested = {}
    /\ src_frames = <<>>
    /\ wpc = "start"

NextWindow ==
    \/ DFTTestCreate /\ UNCHANGED <<tvars, fvars, gvars, wvars, pvars>>
    \/ Initial /\ UNCHANGED <<tvars, cvars, fvars, gvars, pvars>>
    \/ AllFramesReady /\ UNCHANGED <<tvars, cvars, fvars, gvars, pvars>>

SpecWindow == InitWindow /\ [][NextWindow]_vars

\* ------------------------------------------------------------------------
\* The loop over the planes
\* ------------------------------------------------------------------------

\* The block_step arguments of SpecPlanes.
PlaneStepArgs == {Unset, I64(-1), I64(0), I64(8)}

\* Line 400: the plane is processed.
ProcessPlane_All(process, p) == TRUE
ProcessPlane(process, p) == process[p]

\* Lines 329-374 for a worker on its own: the control word is saved and
\* forced; the first call allocates, registers and decrements the counter.
EnterBookkeeping ==
    /\ ncalls' = [ncalls EXCEPT ![TheWorker] = @ + 1]
    /\ saved_mxcsr' = [saved_mxcsr EXCEPT ![TheWorker] = mxcsr[TheWorker]]
    /\ mxcsr' = [mxcsr EXCEPT ![TheWorker] = no_subnormals(@)]
    /\ pc' = [pc EXCEPT ![TheWorker] = "process"]
    /\ IF Registered(thread_data, TheWorker)
       THEN /\ local_td' = [local_td EXCEPT ![TheWorker] = thread_data[TheWorker]]
            /\ UNCHANGED <<thread_data, first_td, heap, nalloc, nexcl,
                           num_uninitialized_threads>>
       ELSE \E a, b \in LowestFree(heap) :
               /\ a < b
               /\ local_td' = [local_td EXCEPT ![TheWorker] =
                                  [padded |-> a, padded2 |-> b]]
               /\ thread_data' = emplace(thread_data, TheWorker,
                                         [padded |-> a, padded2 |-> b])
               /\ first_td' = [first_td EXCEPT ![TheWorker] =
                                  [padded |-> a, padded2 |-> b]]
               /\ heap' = heap \cup {a, b}
               /\ nalloc' = [nalloc EXCEPT ![TheWorker] = @ + 1]
               /\ nexcl' = [nexcl EXCEPT ![TheWorker] = @ + 1]
               /\ num_uninitialized_threads' = num_uninitialized_threads - 1
    /\ UNCHANGED <<lock_writer, lock_readers, initialized, nfree, caller_mxcsr,
                   filter, nframes>>

\* The process dies in the worker's invocation (a signal, or std::terminate).
Terminate ==
    /\ filter' = "terminated"
    /\ pc' = [pc EXCEPT ![TheWorker] = "terminated"]
    /\ UNCHANGED <<num_uninitialized_threads, thread_data, lock_writer,
                   lock_readers, local_td, initialized, mxcsr, saved_mxcsr,
                   heap, ncalls, nframes, nalloc, nexcl, nfree, first_td,
                   caller_mxcsr>>

\* Lines 329-397: arAllFramesReady up to the loop over the planes.
PlaneEnter ==
    /\ cpc = "done"
    /\ created = 1
    /\ ppc = "idle"
    /\ pc[TheWorker] = "idle"
    /\ pframes < MaxPlaneFrames
    /\ EnterBookkeeping
    /\ pframes' = pframes + 1
    /\ cur_plane' = 0
    /\ plane_blocks' = 0
    /\ block_i' = 0
    /\ nzero' = [p \in 0..2 |-> 0]
    /\ nwrites' = [p \in 0..2 |-> 0]
    /\ nstored' = [p \in 0..2 |-> 0]
    /\ open_plane' = -1
    /\ zero_while_open' = FALSE
    /\ ppc' = "loop"
    /\ UNCHANGED plane_dims

\* Lines 399-402: the loop condition holds; a plane that is not processed
\* is skipped.
PlaneNext ==
    /\ ppc = "loop"
    /\ cur_plane < d.format.numPlanes
    /\ IF ProcessPlane(d.process, cur_plane)
       THEN ppc' = "memset" /\ UNCHANGED cur_plane
       ELSE cur_plane' = cur_plane + 1 /\ UNCHANGED ppc
    /\ UNCHANGED <<plane_dims, plane_blocks, block_i, pframes, nzero, nwrites,
                   nstored, open_plane, zero_while_open>>

\* Line 399: the loop over the planes ends.
PlaneEnd ==
    /\ ppc = "loop"
    /\ cur_plane >= d.format.numPlanes
    /\ Process(TheWorker)
    /\ ppc' = "done"
    /\ UNCHANGED <<cur_plane, plane_dims, plane_blocks, block_i, pframes, nzero,
                   nwrites, nstored, open_plane, zero_while_open>>

\* Lines 413-417: memset(thread_data.padded2, 0, ...).
PlaneMemset ==
    /\ ppc = "memset"
    /\ nzero' = [nzero EXCEPT ![cur_plane] = @ + 1]
    /\ zero_while_open' = (zero_while_open \/ open_plane # -1)
    /\ ppc' = "pad"
    /\ UNCHANGED <<cur_plane, plane_dims, plane_blocks, block_i, pframes,
                   nwrites, nstored, open_plane>>

\* Lines 419-428: reflection_padding of the source frames.  A read before
\* the start of the buffer may fault.
PlanePad ==
    /\ ppc = "pad"
    /\ \E segv \in (IF LowestPaddingRead(0, plane_dims.width, plane_dims.height,
                                         d.block_size, d.block_step) < 0
                     THEN BOOLEAN ELSE {FALSE}) :
          IF segv
          THEN ppc' = "fault" /\ Terminate
          ELSE ppc' = "count" /\ UNCHANGED tvars
    /\ UNCHANGED <<cur_plane, plane_dims, plane_blocks, block_i, pframes, nzero,
                   nwrites, nstored, open_plane, zero_while_open>>

\* Lines 430-431: calc_pad_num(height) and calc_pad_num(width) of the loop
\* conditions (the same values at every evaluation).  The division by a
\* block_step of 0 is undefined.
PlaneCount ==
    /\ ppc = "count"
    /\ \E dz \in (IF d.block_step = 0 THEN DivZeroOutcomes
                   ELSE {[trap |-> FALSE, quotient |-> 0]}) :
          IF dz.trap
          THEN ppc' = "fault" /\ Terminate /\ UNCHANGED <<plane_blocks, block_i>>
          ELSE LET num_h == IF d.block_step = 0 THEN dz.quotient + 1
                            ELSE calc_pad_num(plane_dims.height, d.block_size,
                                              d.block_step)
                   num_w == IF d.block_step = 0 THEN dz.quotient + 1
                            ELSE calc_pad_num(plane_dims.width, d.block_size,
                                              d.block_step)
               IN  /\ plane_blocks' = Max(num_h, 0) * Max(num_w, 0)
                   /\ block_i' = 0
                   /\ ppc' = "blocks"
                   /\ UNCHANGED tvars
    /\ UNCHANGED <<cur_plane, plane_dims, pframes, nzero, nwrites, nstored,
                   open_plane, zero_while_open>>

\* Lines 439-467: one block: load_block, fused, store_block.
PlaneBlock ==
    /\ ppc = "blocks"
    /\ block_i < plane_blocks
    /\ nwrites' = [nwrites EXCEPT ![cur_plane] = @ + 1]
    /\ open_plane' = cur_plane
    /\ block_i' = block_i + 1
    /\ UNCHANGED <<ppc, cur_plane, plane_dims, plane_blocks, pframes, nzero,
                   nstored, zero_while_open>>

\* Lines 471-485: the block loop has ended; store_frame, and the next plane.
PlaneStore ==
    /\ ppc = "blocks"
    /\ block_i >= plane_blocks
    /\ nstored' = [nstored EXCEPT ![cur_plane] = @ + 1]
    /\ open_plane' = -1
    /\ cur_plane' = cur_plane + 1
    /\ ppc' = "loop"
    /\ UNCHANGED <<plane_dims, plane_blocks, block_i, pframes, nzero, nwrites,
                   zero_while_open>>

\* Lines 488-490: the control word is restored and the frame returned.
PlaneReturn ==
    /\ ppc = "done"
    /\ Return(TheWorker)
    /\ ppc' = "idle"
    /\ UNCHANGED <<cur_plane, plane_dims, plane_blocks, block_i, pframes, nzero,
                   nwrites, nstored, open_plane, zero_while_open>>

InitPlanes ==
    /\ ThreadsAtCreation({})
    /\ NoFrame
    /\ NoGrid
    /\ NoWindow
    /\ \E np \in {1, 3}, bstep \in PlaneStepArgs, pl \in PlanesArgs :
          BeforeCreate(Args(Format("stInteger", 8, np), Unset, Unset, bstep, pl))
    /\ \E width \in 1..MaxDim, height \in 1..MaxDim :
          plane_dims = [width |-> width, height |-> height]
    /\ ppc = "idle"
    /\ cur_plane = 0
    /\ plane_blocks = 0
    /\ block_i = 0
    /\ pframes = 0
    /\ nzero = [p \in 0..2 |-> 0]
    /\ nwrites = [p \in 0..2 |-> 0]
    /\ nstored = [p \in 0..2 |-> 0]
    /\ open_plane = -1
    /\ zero_while_open = FALSE

NextPlanes ==
    \/ DFTTestCreate /\ UNCHANGED <<tvars, fvars, gvars, wvars, pvars>>
    \/ PlaneEnter /\ UNCHANGED <<cvars, fvars, gvars, wvars>>
    \/ PlaneNext /\ UNCHANGED <<tvars, cvars, fvars, gvars, wvars>>
    \/ PlaneEnd /\ UNCHANGED <<cvars, fvars, gvars, wvars>>
    \/ PlaneMemset /\ UNCHANGED <<tvars, cvars, fvars, gvars, wvars>>
    \/ PlanePad /\ UNCHANGED <<cvars, fvars, gvars, wvars>>
    \/ PlaneCount /\ UNCHANGED <<cvars, fvars, gvars, wvars>>
    \/ PlaneBlock /\ UNCHANGED <<tvars, cvars, fvars, gvars, wvars>>
    \/ PlaneStore /\ UNCHANGED <<tvars, cvars, fvars, gvars, wvars>>
    \/ PlaneReturn /\ UNCHANGED <<cvars, fvars, gvars, wvars>>

SpecPlanes == InitPlanes /\ [][NextPlanes]_vars

\* ------------------------------------------------------------------------
\* The specification of the worker threads
\* ------------------------------------------------------------------------

Init ==
    /\ InitThreads
    /\ in_args = DefaultArgs
    /\ d = CreateOutcome(DefaultArgs).data
    /\ out_error = ""
    /\ node_freed = 0
    /\ created = 1
    /\ cpc = "done"
    /\ NoFrame
    /\ NoGrid
    /\ NoWindow
    /\ NoPlanes

Next == NextThreads /\ UNCHANGED <<cvars, fvars, gvars, wvars, pvars>>

Spec == Init /\ [][Next]_vars

\* ------------------------------------------------------------------------
\* Properties of the worker threads (checked under Spec)
\* ------------------------------------------------------------------------

\* The blocks of one registry entry.
BlocksOf(e) == {e.padded, e.padded2}

\* A worker is inside the body of DFTTestGetFrame, past the save of line 329.
InFrame(w) == pc[w] # "idle"

\* C1: with NumThreads distinct workers calling DFTTestGetFrame in any
\* interleaving, no insertion into thread_data (a worker between lock() and
\* unlock() of the exclusive lock) overlaps a lookup made without a lock; the
\* entries of the registry belong to workers, each holds two blocks, no block
\* is held by two entries; and once every worker has returned a frame the
\* registry holds exactly NumThreads entries, one per worker.
C1_DistinctBuffersNoRace ==
    /\ \A w, v \in Workers :
          ~(pc[w] = "at_unlocked" /\ pc[v] \in {"emplace", "unlock"})
    /\ \A w \in Workers : pc[w] = "at_unlocked" => lock_writer = 0
    /\ \A w \in Workers : pc[w] \in {"emplace", "unlock"} <=> lock_writer = w
    /\ lock_writer # 0 => lock_readers = {}
    /\ DOMAIN thread_data \subseteq Workers
    /\ \A w \in DOMAIN thread_data :
          /\ thread_data[w].padded # thread_data[w].padded2
          /\ BlocksOf(thread_data[w]) \subseteq heap \/ filter = "freed"
          /\ \A v \in DOMAIN thread_data :
                v # w => BlocksOf(thread_data[w]) \cap BlocksOf(thread_data[v]) = {}
    /\ (\A w \in Workers : nframes[w] >= 1) =>
          /\ DOMAIN thread_data = Workers
          /\ Cardinality(DOMAIN thread_data) = NumThreads

\* C1 witness: two workers are in their first call at once, one holding the
\* exclusive lock with its entry inserted, the other waiting to insert.
C1_Witness ==
    \E w, v \in Workers :
        /\ w # v
        /\ pc[w] = "unlock" /\ w \in DOMAIN thread_data
        /\ pc[v] = "lock" /\ nframes[v] = 0 /\ nframes[w] = 0

\* C2: a worker allocates and takes the exclusive lock in at most one
\* invocation, and that is its first frame; every invocation works on the
\* buffer pair registered first; an entry of the registry is never replaced;
\* no block is freed while the filter is alive, and DFTTestFree frees each
\* registered block exactly once (and no other block).
C2_AllocateOnceFreeOnce ==
    /\ \A w \in Workers :
          /\ nalloc[w] <= 1
          /\ nexcl[w] <= 1
          /\ pc[w] \in {"malloc", "lock", "emplace", "unlock", "fetch_sub"}
                => nframes[w] = 0
          /\ nframes[w] >= 1 => nalloc[w] = 1 /\ nexcl[w] = 1
          /\ w \in DOMAIN thread_data => thread_data[w] = first_td[w]
          /\ pc[w] \in {"process", "restore"} =>
                /\ w \in DOMAIN thread_data
                /\ local_td[w] = first_td[w]
    /\ filter = "alive" =>
          /\ \A a \in Addrs : nfree[a] = 0
          /\ \A w \in DOMAIN thread_data : BlocksOf(thread_data[w]) \subseteq heap
    /\ filter = "freed" =>
          \A a \in Addrs :
              nfree[a] = IF \E w \in DOMAIN thread_data : a \in BlocksOf(thread_data[w])
                         THEN 1 ELSE 0

\* C2 witness: a worker that has already returned a frame is filtering
\* another one in the buffers it registered.
C2_Witness ==
    \E w \in Workers :
        /\ nframes[w] >= 1
        /\ pc[w] = "process"
        /\ local_td[w] = thread_data[w]

InvalidConfiguration(a) ==
    \/ ~a.format.constant
    \/ /\ a.format.constant
       /\ \/ /\ a.format.sampleType = "stInteger"
             /\ a.format.bitsPerSample \notin 8..16
          \/ /\ a.format.sampleType = "stFloat"
             /\ a.format.bitsPerSample # 32
          \/ \E i \in 1..Len(a.planes) :
                \/ I64Less(a.planes[i], 0)
                \/ I64AtLeast(a.planes[i], a.format.numPlanes)
    \/ ~IsUnset(a.radius) /\ (I64Less(a.radius, 0) \/ I64AtLeast(a.radius, 4))
    \/ ~IsUnset(a.block_size) /\ a.block_size # I64(16)
    \/ \E i, j \in 1..Len(a.planes) : i # j /\ a.planes[i] = a.planes[j]

\* C4: DFTTestCreate rejects every invalid configuration: once it has
\* returned, an error is set on "out", createFilter was not called, no
\* DFTTestData was handed over, and the node was freed exactly once.
C4_RejectsEveryInvalid ==
    (cpc = "done" /\ InvalidConfiguration(in_args)) =>
        /\ out_error # ""
        /\ created = 0
        /\ node_freed = 1
        /\ d = NoData

\* ------------------------------------------------------------------------
\* Properties of one frame (checked under SpecFrame)
\* ------------------------------------------------------------------------

\* The invocation of DFTTestGetFrame has ended.
FrameEnded == created = 1 /\ fpc \in {"returned", "fault"}

\* Every pixel of the destination plane holds the sample of the source.
SamePixels ==
    \A y \in 0..(src_plane.height - 1), x \in 0..(src_plane.width - 1) :
        dst_plane[y * src_plane.stride + x]
            = src_plane.data[y * src_plane.stride + x]

\* C5: for every configuration DFTTestCreate accepts, the frame is
\* processed without a runtime fault: the invocation returns, the block
\* count is positive (and was computed without a division by zero), and the
\* worker's registry entry is found.
C5_NoRuntimeFault ==
    FrameEnded =>
        /\ fault = "none"
        /\ nblocks > 0
        /\ TheWorker \in DOMAIN thread_data

C7_QuantizedInRange ==
    fpc = "returned" =>
        \A y \in 0..(src_plane.height - 1), x \in 0..(src_plane.width - 1) :
            dst_plane[y * src_plane.stride + x]
                \in 0..(Shl1(d.format.bitsPerSample) - 1)

\* C7 witness: a 10-bit frame was stored from an accumulation buffer whose
\* values are beyond the range of int, and the conversion yielded a value
\* above the peak, which was clamped to 1023.
C7_Witness ==
    /\ fpc = "returned"
    /\ ~fused_kind.identity
    /\ fused_kind.out = FloatNegOver
    /\ d.format.bitsPerSample = 10
    /\ padded2[0][0] = FloatNegOver
    /\ dst_plane[0] = 1023

\* The cells of a line or column of n cells, the source at off..off+size-1,
\* whose mirror images about the first and the last source cell exist.
LeftPairs(off) == 1..off
RightPairs(n, off, size) == 1..Min(n - off - size, off + size - 1)

\* C10: after the padding of a frame that was returned (block_step in
\* 1..block_size), in every line of the padded plane the cells left of the
\* first source column mirror the cells right of it, the cells right of the
\* last source column mirror the cells left of it, and likewise the lines
\* above the first and below the last source line.
C10_ReflectionSymmetry ==
    (fpc = "returned" /\ d.block_step \in 1..d.block_size) =>
        LET pad_width == calc_pad_size(src_plane.width, d.block_size, d.block_step)
            pad_height == calc_pad_size(src_plane.height, d.block_size, d.block_step)
            offset_y == (pad_height - src_plane.height) \div 2
            offset_x == (pad_width - src_plane.width) \div 2
        IN  /\ \A y \in 0..(pad_height - 1) :
                  /\ \A k \in LeftPairs(offset_x) :
                        padded[y][offset_x - k] = padded[y][offset_x + k]
                  /\ \A k \in RightPairs(pad_width, offset_x, src_plane.width) :
                        padded[y][offset_x + src_plane.width - 1 + k]
                            = padded[y][offset_x + src_plane.width - 1 - k]
            /\ \A k \in LeftPairs(offset_y) :
                  padded[offset_y - k] = padded[offset_y + k]
            /\ \A k \in RightPairs(pad_height, offset_y, src_plane.height) :
                  padded[offset_y + src_plane.height - 1 + k]
                      = padded[offset_y + src_plane.height - 1 - k]

\* ------------------------------------------------------------------------
\* Properties of the padded grid (checked under SpecGrid)
\* ------------------------------------------------------------------------

\* The positive block steps that divide block_size.
DivisorsOfBlockSize == {s \in 1..BlockSize : BlockSize % s = 0}

\* The first pixel of the output region on the axis: (pad - size) / 2
\* (lines 471-473).
OutputOffset == (grid_pad - grid_size) \div 2

\* C8 as stated: for every size and every block_step the filter accepts
\* (other than 0, where the remainder is undefined), the padded size less
\* block_size is a multiple of block_step.
C8_CongruentForEveryStep ==
    (gpc \in {"sized", "counted"} /\ grid_step # 0) =>
        CMod(grid_pad - BlockSize, grid_step) = 0

\* C8 amended: for every size, when block_step is a positive divisor of
\* block_size (1, 2, 4, 8 or 16) the padded size less block_size is a
\* multiple of block_step, and the calc_pad_num blocks end exactly at the
\* padded edge.
C8_CongruentForDivisors ==
    (gpc \in {"sized", "counted"} /\ grid_step \in DivisorsOfBlockSize) =>
        /\ CMod(grid_pad - BlockSize, grid_step) = 0
        /\ gpc = "counted" =>
              BlockStart(grid_num - 1, BlockSize, grid_step) + BlockSize = grid_pad

\* C8 witness: a size of 17 with block_step 8 is padded to 48 and holds 5
\* blocks.
C8_Witness ==
    /\ gpc = "counted"
    /\ grid_size = 17 /\ grid_step = 8
    /\ grid_pad = 48 /\ grid_num = 5

\* C9 as stated: for every size and every block_step in 1..block_size, each
\* pixel of the padded grid lies inside at least one block.
C9_PaddedGridCovered ==
    (gpc = "counted" /\ grid_step \in 1..BlockSize) =>
        \A p \in 0..(grid_pad - 1) : Covered(p, grid_num, BlockSize, grid_step)

\* C9 amended: for every size and every block_step in 1..block_size, each
\* pixel of the output region (size pixels from (pad - size) / 2 on) lies
\* inside at least one block; each pixel of the padded grid does when
\* block_step divides block_size.
C9_OutputRegionCovered ==
    (gpc = "counted" /\ grid_step \in 1..BlockSize) =>
        /\ \A p \in OutputOffset..(OutputOffset + grid_size - 1) :
              Covered(p, grid_num, BlockSize, grid_step)
        /\ grid_step \in DivisorsOfBlockSize =>
              \A p \in 0..(grid_pad - 1) :
                  Covered(p, grid_num, BlockSize, grid_step)

\* C9 witness: a size of 17 with block_step 12 is padded to 56 and holds 4
\* blocks, which end at pixel 51: the last pixel of the output region (35)
\* is covered, the last pixel of the padded grid is not.
C9_Witness ==
    /\ gpc = "counted"
    /\ grid_size = 17 /\ grid_step = 12
    /\ grid_pad = 56 /\ grid_num = 4
    /\ OutputOffset + grid_size - 1 = 35
    /\ Covered(35, grid_num, BlockSize, grid_step)
    /\ ~Covered(55, grid_num, BlockSize, grid_step)

\* ------------------------------------------------------------------------
\* Properties of the warm-up counter (checked under Spec)
\* ------------------------------------------------------------------------

\* The worker has finished registering: its entry is in the registry, the
\* exclusive lock is released and its fetch_sub of line 372 is done.
FinishedRegistering(w) ==
    /\ Registered(thread_data, w)
    /\ pc[w] \notin {"unlock", "fetch_sub"}

\* The worker is on the way to an insertion (lines 353-369).
Inserting(w) == pc[w] \in {"malloc", "lock", "emplace"}

\* C12: with NumThreads distinct workers, num_uninitialized_threads equals
\* NumThreads less the number of workers that have finished registering (so
\* a decrement follows the worker's insertion), it is never negative, it
\* is 0 only when every worker has an entry, and a worker is at the
\* unlocked lookup only when its own entry is there, the counter is 0 and
\* no worker is on the way to an insertion.
C12_CounterTracksWarmUp ==
    /\ num_uninitialized_threads
          = NumThreads - Cardinality({w \in Workers : FinishedRegistering(w)})
    /\ num_uninitialized_threads >= 0
    /\ num_uninitialized_threads = 0 => DOMAIN thread_data = Workers
    /\ \A w \in Workers :
          pc[w] = "at_unlocked" =>
              /\ Registered(thread_data, w)
              /\ num_uninitialized_threads = 0
              /\ \A v \in Workers : ~Inserting(v)

\* C12 witness: one worker has finished registering and the other has
\* inserted its entry but not yet decremented the counter, which reads 1
\* with both entries present.
C12_Witness ==
    \E w, v \in Workers :
        /\ w # v
        /\ FinishedRegistering(w)
        /\ pc[v] = "fetch_sub" /\ Registered(thread_data, v)
        /\ num_uninitialized_threads = NumThreads - 1

\* ------------------------------------------------------------------------
\* Properties of the temporal window (checked under SpecWindow)
\* ------------------------------------------------------------------------

\* i, brought into 0 .. numFrames - 1.
InClip(i, numFrames) ==
    IF i < 0 THEN 0 ELSE IF i > numFrames - 1 THEN numFrames - 1 ELSE i

\* C13: for an output frame n of the clip and the radius of the filter, the
\* window built for arAllFramesReady has 2 * radius + 1 entries, entry k is
\* the frame n - radius + k brought into the clip, the centre entry is
\* frame n, and the frames fetched are exactly the frames arInitial
\* requested for n.
C13_TemporalWindow ==
    wpc = "ready" =>
        /\ Len(src_frames) = 2 * d.radius + 1
        /\ \A k \in 0..(2 * d.radius) :
              src_frames[k + 1] = InClip(frame_n - d.radius + k, num_frames)
        /\ src_frames[d.radius + 1] = frame_n
        /\ {src_frames[k] : k \in 1..Len(src_frames)} = requested

\* C13 witness: frame 1 of a clip of 3 frames with radius 3: the window is
\* clamped at both ends of the clip.
C13_Witness ==
    /\ wpc = "ready"
    /\ d.radius = 3
    /\ frame_n = 1 /\ num_frames = 3
    /\ src_frames = <<0, 0, 0, 1, 2, 2, 2>>
    /\ requested = {0, 1, 2}

\* ------------------------------------------------------------------------
\* Properties of the loop over the planes (checked under SpecPlanes)
\* ------------------------------------------------------------------------

\* The plane p is one the filter processes.
Processed(p) == p < d.format.numPlanes /\ d.process[p]

\* C11: within an invocation of DFTTestGetFrame, the accumulation buffer is
\* zeroed at most once per plane, a plane whose blocks are being written or
\* that was stored has been zeroed, no zeroing falls between a plane's first
\* store_block and its store_frame, a plane that is not processed is neither
\* zeroed nor written nor stored, and when the loop over the planes has
\* ended every processed plane was zeroed exactly once and stored once.
C11_ZeroedOncePerPlane ==
    (cpc = "done" /\ created = 1 /\ ppc \notin {"none", "idle"}) =>
        /\ ~zero_while_open
        /\ \A p \in 0..2 :
              /\ nzero[p] <= 1
              /\ nstored[p] <= 1
              /\ nwrites[p] > 0 => nzero[p] = 1
              /\ nstored[p] > 0 => nzero[p] = 1
              /\ ~Processed(p) =>
                    nzero[p] = 0 /\ nwrites[p] = 0 /\ nstored[p] = 0
              /\ (ppc = "done" /\ Processed(p)) =>
                    nzero[p] = 1 /\ nstored[p] = 1

\* C11 witness: the worker's second frame of a 3-plane clip of which only
\* plane 1 is processed has gone through the loop: plane 1 was zeroed once,
\* several blocks were written and the plane was stored; planes 0 and 2 were
\* left alone.
C11_Witness ==
    /\ ppc = "done"
    /\ pframes = 2
    /\ d.format.numPlanes = 3
    /\ d.process = [p \in 0..2 |-> p = 1]
    /\ nzero = [p \in 0..2 |-> IF p = 1 THEN 1 ELSE 0]
    /\ nwrites[1] > 1 /\ nwrites[0] = 0 /\ nwrites[2] = 0
    /\ nstored = [p \in 0..2 |-> IF p = 1 THEN 1 ELSE 0]

====
